---- MODULE Spec2Model ----
(***************************************************************************)
(* A model of QGraphList (src/QGraphList.py): a collection of QGraph       *)
(* objects with a cached pandas summary table, npy persistence, filtering, *)
(* merging and batch generation.                                           *)
(*                                                                         *)
(* Python objects that can be aliased are modelled with identities: list   *)
(* objects live in `heap` and are named by references, tables (DataFrames) *)
(* carry an id.  QGraph itself is not part of the source file; its         *)
(* attributes are modelled from the specification (section 6).             *)
(***************************************************************************)
EXTENDS Integers, Sequences, FiniteSets, TLC

\* Longest list the model lets a collection hold.
MaxLen == 2
\* Number of distinct QGraph objects the caller has at hand.
NUnits == 2
\* Number of calls the caller makes on the collections it has constructed.
MaxCalls == 3
\* Longest list of specifications the caller passes to grow_random_graphs.
MaxBatch == 2

\* The caller's variables that hold QGraphList objects.
Colls == {"A", "B", "R"}
Units == 1..NUnits
\* References to list objects and identities of tables. At most one of each
\* is alive per collection, so they are named like the collections; "-" is None.
Refs == Colls
FrameIds == Colls

VARIABLES
    colls,      \* colls[c]: the attributes list, dataframe_, filename of object c
    heap,       \* heap[r]: the list object (a Python list or a numpy array) at r
    disk,       \* disk[p]: the file at path p
    walkers,    \* walkers[u]: the walker count QGraph u was constructed with
    last,       \* the last call: its operation, its receiver, its outcome and result
    calls,      \* the number of calls made so far
    gen         \* the grow_random_graphs call in progress, or the last one made

vars == <<colls, heap, disk, walkers, last, calls, gen>>

----------------------------------------------------------------------------
(* Values *)

\* A file name is a sequence of characters; None is the empty sequence
\* (Python's `if self.filename` treats None and '' alike, and '' is never bound).
NoName == <<>>
a_npy == <<"a", ".", "n", "p", "y">>
b_npy == <<"b", ".", "n", "p", "y">>
a_txt == <<"a", ".", "t", "x", "t">>
npy == <<"n", "p", "y">>
Paths == {a_npy, b_npy, a_txt, npy}

\* filename[-4:]
Last4(filename) ==
    SubSeq(filename, IF Len(filename) > 4 THEN Len(filename) - 3 ELSE 1, Len(filename))

\* The extension check of save and load: filename[-4:] != '.npy' raises.
\* (a variant that compares only the last three characters with 'npy')
BadExtensionLast3(filename) ==
    SubSeq(filename, IF Len(filename) > 3 THEN Len(filename) - 2 ELSE 1, Len(filename))
        # <<"n", "p", "y">>
BadExtension(filename) == Last4(filename) # <<".", "n", "p", "y">>

\* self.numbers
numbers ==
    [k \in 1..8 |->
        CASE k = 1 -> "one" [] k = 2 -> "two" [] k = 3 -> "three" [] k = 4 -> "four"
          [] k = 5 -> "five" [] k = 6 -> "six" [] k = 7 -> "seven" [] OTHER -> "eight"]

\* The QGraph attributes the collection reads (specification, section 6).
exploration(u) == 10 * u
nodes(u) == 5 * u
diameter(u) == u + 1
clustering_coefficient(u) == 3 * u
degree_distribution(u) == <<u, 1>>
leaf_fraction(u) == 7 * u
\* hash(G): derived from the content, not from the object's address.
Hash(u) == 100 * walkers[u] + nodes(u)

\* A table (DataFrame): an identity and its rows; id 0 is None.
NoFrame == [id |-> "-", rows |-> <<>>]
\* A list object; kind "free" is an unused reference.
Free == [kind |-> "free", items |-> <<>>]
NoFile == [exists |-> FALSE, data |-> <<>>]
\* A call: err is the exception it raised ("ok": it returned), ret the table the
\* dataframe property returned, computed whether that read built the table.
NoCall == [op |-> "none", c |-> "-", err |-> "ok", ret |-> NoFrame, computed |-> FALSE]

\* No grow_random_graphs call.
NoGen == [pc |-> "idle", c |-> "-", specs |-> <<>>, finished |-> {}, order |-> <<>>,
          i |-> 0, G |-> 0, before |-> <<>>, interrupted |-> FALSE]

Lists == UNION {[1..n -> Units] : n \in 0..MaxLen}

items(c) == heap[colls[c].list].items
kind(c) == heap[colls[c].list].kind

\* The reference of a list object created for collection d: one that no other
\* collection holds (d's own name when that is free).
FreshRef(d) ==
    IF \A x \in Colls \ {d} : colls[x].list # d
    THEN d
    ELSE CHOOSE r \in Refs : \A x \in Colls \ {d} : colls[x].list # r
\* The identity of a table created for collection d: one that no other collection holds.
FreshId(d) ==
    IF \A x \in Colls \ {d} : colls[x].dataframe_.id # d
    THEN d
    ELSE CHOOSE i \in FrameIds : \A x \in Colls \ {d} : colls[x].dataframe_.id # i

\* Python frees a list object once no collection refers to it.
Collect(h, cs) == [r \in Refs |-> IF \E c \in Colls : cs[c].list = r THEN h[r] ELSE Free]

Call(op, c, err) == [op |-> op, c |-> c, err |-> err, ret |-> NoFrame, computed |-> FALSE]

----------------------------------------------------------------------------
(* __init__ *)

\* The object QGraphList(lst) for a list object at reference r.
NewObject(r) == [list |-> r, dataframe_ |-> NoFrame, filename |-> NoName]

\* `lst or []` for the list object at reference r: the same object unless it is empty.
LstOrNew(d, r) == IF heap[r].items # <<>> THEN r ELSE FreshRef(d)

\* d = QGraphList(o.list): the caller passes a list object that collection o holds
\* (the list o itself was constructed from). A numpy array is not a list: ValueError.
InitShared(d, o) ==
    IF kind(o) # "list"
    THEN /\ last' = Call("init", d, "ValueError")
         /\ UNCHANGED <<colls, heap, disk, walkers>>
    ELSE LET r == LstOrNew(d, colls[o].list)
             cs == [colls EXCEPT ![d] = NewObject(r)]
         IN  /\ colls' = cs
             /\ heap' = Collect([heap EXCEPT ![r] = [kind |-> "list", items |-> items(o)]], cs)
             /\ last' = Call("init", d, "ok")
             /\ UNCHANGED <<disk, walkers>>

----------------------------------------------------------------------------
(* append *)

\* self.list.append(G); self.dataframe_ = None. A numpy array has no append.
AppendCall(c, u) ==
    IF kind(c) # "list"
    THEN /\ last' = Call("append", c, "AttributeError")
         /\ UNCHANGED <<colls, heap, disk, walkers>>
    ELSE /\ heap' = [heap EXCEPT ![colls[c].list].items = Append(@, u)]
         /\ colls' = [colls EXCEPT ![c].dataframe_ = NoFrame]
         /\ last' = Call("append", c, "ok")
         /\ UNCHANGED <<disk, walkers>>

----------------------------------------------------------------------------
(* save, load *)

\* What pickling keeps of a QGraph: its content.
Pickle(u) == [walkers |-> walkers[u], exploration |-> exploration(u), nodes |-> nodes(u)]
\* Unpickling builds a QGraph with the pickled content.
Unpickle(p) ==
    CHOOSE u \in Units :
        walkers[u] = p.walkers /\ exploration(u) = p.exploration /\ nodes(u) = p.nodes

\* np.save(filename, lst)
NpSave(filename, lst) == [exists |-> TRUE, data |-> [i \in 1..Len(lst) |-> Pickle(lst[i])]]
\* np.load(filename, allow_pickle=True): the items of the array read
NpLoad(file) == [i \in 1..Len(file.data) |-> Unpickle(file.data[i])]

\* (a variant of save that binds the filename before it checks the extension)
SaveBindingFirst(c, filename) ==
    IF BadExtension(filename)
    THEN /\ colls' = [colls EXCEPT ![c].filename = filename]
         /\ last' = Call("save", c, "ValueError")
         /\ UNCHANGED <<heap, disk, walkers>>
    ELSE /\ colls' = [colls EXCEPT ![c].filename = filename]
         /\ disk' = [disk EXCEPT ![filename] = NpSave(filename, items(c))]
         /\ last' = Call("save", c, "ok")
         /\ UNCHANGED <<heap, walkers>>

Save(c, filename) ==
    IF BadExtension(filename)
    THEN /\ last' = Call("save", c, "ValueError")
         /\ UNCHANGED <<colls, heap, disk, walkers>>
    ELSE /\ colls' = [colls EXCEPT ![c].filename = filename]
         /\ disk' = [disk EXCEPT ![filename] = NpSave(filename, items(c))]
         /\ last' = Call("save", c, "ok")
         /\ UNCHANGED <<heap, walkers>>

\* (a variant of load that extends the list it holds with what it reads)
LoadExtending(c, filename) ==
    IF BadExtension(filename)
    THEN /\ last' = Call("load", c, "ValueError")
         /\ UNCHANGED <<colls, heap, disk, walkers>>
    ELSE IF ~disk[filename].exists
    THEN /\ colls' = [colls EXCEPT ![c].filename = filename]
         /\ last' = Call("load", c, "FileNotFoundError")
         /\ UNCHANGED <<heap, disk, walkers>>
    ELSE LET r == FreshRef(c)
             cs == [colls EXCEPT ![c].filename = filename, ![c].list = r]
         IN  /\ colls' = cs
             /\ heap' = Collect([heap EXCEPT
                                   ![r] = [kind |-> "ndarray",
                                           items |-> items(c) \o NpLoad(disk[filename])]], cs)
             /\ last' = Call("load", c, "ok")
             /\ UNCHANGED <<disk, walkers>>

\* self.filename is assigned before np.load runs, so a missing file leaves it bound.
Load(c, filename) ==
    IF BadExtension(filename)
    THEN /\ last' = Call("load", c, "ValueError")
         /\ UNCHANGED <<colls, heap, disk, walkers>>
    ELSE IF ~disk[filename].exists
    THEN /\ colls' = [colls EXCEPT ![c].filename = filename]
         /\ last' = Call("load", c, "FileNotFoundError")
         /\ UNCHANGED <<heap, disk, walkers>>
    ELSE LET r == FreshRef(c)
             cs == [colls EXCEPT ![c].filename = filename, ![c].list = r]
         IN  /\ colls' = cs
             /\ heap' = Collect([heap EXCEPT
                                   ![r] = [kind |-> "ndarray", items |-> NpLoad(disk[filename])]], cs)
             /\ last' = Call("load", c, "ok")
             /\ UNCHANGED <<disk, walkers>>

----------------------------------------------------------------------------
(* dataframe *)

\* One row of the summary table.
Row(u) ==
    [exploration |-> exploration(u), walkers |-> numbers[walkers[u]], nodes |-> nodes(u),
     diameter |-> diameter(u), clustering |-> clustering_coefficient(u),
     degree_distribution |-> degree_distribution(u), leaf_fraction |-> leaf_fraction(u)]
Rows(lst) == [i \in 1..Len(lst) |-> Row(lst[i])]

\* (a variant that builds the table on every read)
MustComputeAlways(c) == TRUE
\* self.numbers[G.walkers] raises KeyError for a walker count that is no key.
RowsFail(lst) == \E i \in 1..Len(lst) : walkers[lst[i]] \notin DOMAIN numbers

\* Whether the property computes the table: self.dataframe_ is None.
MustCompute(c) == colls[c].dataframe_ = NoFrame

\* The dataframe property: compute if absent, save again if a filename is
\* bound. The second save is self.save(self.filename), with its extension check.
Dataframe(c) ==
    IF MustCompute(c) /\ RowsFail(items(c))
    THEN /\ last' = Call("dataframe", c, "KeyError")
         /\ UNCHANGED <<colls, heap, disk, walkers>>
    ELSE LET df == IF MustCompute(c)
                   THEN [id |-> FreshId(c), rows |-> Rows(items(c))]
                   ELSE colls[c].dataframe_
             name == colls[c].filename
         IN  /\ colls' = [colls EXCEPT ![c].dataframe_ = df]
             /\ IF name # NoName /\ BadExtension(name)
                THEN /\ disk' = disk
                     /\ last' = Call("dataframe", c, "ValueError")
                ELSE /\ disk' = IF name # NoName
                                THEN [disk EXCEPT ![name] = NpSave(name, items(c))]
                                ELSE disk
                     /\ last' = [op |-> "dataframe", c |-> c, err |-> "ok", ret |-> df,
                                  computed |-> MustCompute(c)]
             /\ UNCHANGED <<heap, walkers>>

----------------------------------------------------------------------------
(* select, exclude *)

\* The attributes of a QGraph that getattr finds.
Attributes ==
    {"exploration", "walkers", "nodes", "diameter", "clustering_coefficient",
     "degree_distribution", "leaf_fraction"}
\* The property names the caller passes; a QGraph has no attribute "colour".
Props == {"walkers", "nodes", "colour"}
\* getattr(G, property)
GetAttr(u, property) == IF property = "walkers" THEN walkers[u] ELSE nodes(u)
\* The value lists the caller passes for a property.
ValueSets(property) ==
    IF property \in Attributes THEN SUBSET {GetAttr(u, property) : u \in Units} ELSE {{}}

RECURSIVE Filter(_, _, _, _)
\* [G for G in lst if (getattr(G, property) in values) = keep]
Filter(lst, property, values, keep) ==
    IF lst = <<>> THEN <<>>
    ELSE LET rest == Filter(Tail(lst), property, values, keep)
         IN  IF (GetAttr(Head(lst), property) \in values) = keep
             THEN <<Head(lst)>> \o rest ELSE rest

SelectList(lst, property, values) == Filter(lst, property, values, TRUE)
\* (a variant of exclude without the `not`)
ExcludeListNoNot(lst, property, values) == Filter(lst, property, values, TRUE)
ExcludeList(lst, property, values) == Filter(lst, property, values, FALSE)

\* (a variant that filters the receiver's own list object in place and hands
\* that object to the new collection)
DeriveInPlace(op, c, d, lst) ==
    LET r == colls[c].list
        cs == [colls EXCEPT ![d] = NewObject(r)]
    IN  /\ colls' = cs
        /\ heap' = Collect([heap EXCEPT ![r] = [kind |-> "list", items |-> lst]], cs)
        /\ last' = Call(op, c, "ok")
        /\ UNCHANGED <<disk, walkers>>

\* (a variant that hands the receiver's filename to the new collection)
DeriveKeepingName(op, c, d, lst) ==
    LET r == FreshRef(d)
        cs == [colls EXCEPT ![d] = [NewObject(r) EXCEPT !.filename = colls[c].filename]]
    IN  /\ colls' = cs
        /\ heap' = Collect([heap EXCEPT ![r] = [kind |-> "list", items |-> lst]], cs)
        /\ last' = Call(op, c, "ok")
        /\ UNCHANGED <<disk, walkers>>

\* d = QGraphList(lst) for a list lst the call has just built.
Derive(op, c, d, lst) ==
    LET r == FreshRef(d)
        cs == [colls EXCEPT ![d] = NewObject(r)]
    IN  /\ colls' = cs
        /\ heap' = Collect([heap EXCEPT ![r] = [kind |-> "list", items |-> lst]], cs)
        /\ last' = Call(op, c, "ok")
        /\ UNCHANGED <<disk, walkers>>

\* getattr raises AttributeError at the first element when the name is unknown.
Select(c, d, property, values) ==
    IF property \notin Attributes /\ items(c) # <<>>
    THEN /\ last' = Call("select", c, "AttributeError")
         /\ UNCHANGED <<colls, heap, disk, walkers>>
    ELSE Derive("select", c, d, SelectList(items(c), property, values))

Exclude(c, d, property, values) ==
    IF property \notin Attributes /\ items(c) # <<>>
    THEN /\ last' = Call("exclude", c, "AttributeError")
         /\ UNCHANGED <<colls, heap, disk, walkers>>
    ELSE Derive("exclude", c, d, ExcludeList(items(c), property, values))

----------------------------------------------------------------------------
(* __add__ *)

\* self.list + other.list
MergedList(self, other) == self \o other
\* (a variant that appends the tables the other way round)
MergedFrameSwapped(d, self, other) == [id |-> FreshId(d), rows |-> other.rows \o self.rows]
\* self.dataframe_.append(other.dataframe_): a new table, the rows of both.
MergedFrame(d, self, other) == [id |-> FreshId(d), rows |-> self.rows \o other.rows]
\* The dataframe_ of the merged collection.
MergedDataframe(d, self, other) ==
    IF self # NoFrame /\ other # NoFrame THEN MergedFrame(d, self, other) ELSE NoFrame

\* d = c + o. When either list is a numpy array, + is numpy's element-wise
\* addition: it raises, or gives an array that __init__ rejects with ValueError;
\* the bare except turns either into TypeError.
Add(c, o, d) ==
    IF kind(c) # "list" \/ kind(o) # "list"
    THEN /\ last' = Call("add", c, "TypeError")
         /\ UNCHANGED <<colls, heap, disk, walkers>>
    ELSE LET r == FreshRef(d)
             GL == [NewObject(r) EXCEPT
                      !.dataframe_ = MergedDataframe(d, colls[c].dataframe_, colls[o].dataframe_)]
             cs == [colls EXCEPT ![d] = GL]
         IN  /\ colls' = cs
             /\ heap' = Collect([heap EXCEPT
                                   ![r] = [kind |-> "list",
                                           items |-> MergedList(items(c), items(o))]], cs)
             /\ last' = Call("add", c, "ok")
             /\ UNCHANGED <<disk, walkers>>

\* Operands of + that are no QGraphList: an object without an attribute `list`
\* (a number, a Python list), and an object with an attribute `list` that holds
\* a list of QGraphs and without an attribute dataframe_.
Others == {[has_list |-> FALSE, list |-> <<>>], [has_list |-> TRUE, list |-> <<1>>]}

\* d = c + other for such an operand. other.list and other.dataframe_ raise
\* AttributeError when the attribute is missing; other.dataframe_ is read only
\* when self.dataframe_ is not None. The bare except turns every exception
\* into TypeError; nothing checks the type of other.
AddOther(c, other, d) ==
    IF ~other.has_list \/ kind(c) # "list" \/ colls[c].dataframe_ # NoFrame
    THEN /\ last' = Call("add_other", c, "TypeError")
         /\ UNCHANGED <<colls, heap, disk, walkers>>
    ELSE Derive("add_other", c, d, MergedList(items(c), other.list))

----------------------------------------------------------------------------
(* The caller: A and B are constructed from lists, R receives the collections
   that select, exclude, + and QGraphList(X.list) return. *)

Dest == "R"

\* One call by the caller.
Step(call) ==
    /\ calls < MaxCalls
    /\ gen.pc \in {"idle", "done"}
    /\ calls' = calls + 1
    /\ gen' = NoGen
    /\ call

Init ==
    /\ \E a \in Lists, b \in Lists :
          heap = [r \in Refs |->
                    [kind |-> "list", items |-> IF r = "A" THEN a ELSE IF r = "B" THEN b ELSE <<>>]]
    /\ colls = [c \in Colls |-> NewObject(c)]
    /\ disk = [p \in Paths |-> NoFile]
    /\ walkers = [u \in Units |-> u]
    /\ last = NoCall
    /\ calls = 0
    /\ gen = NoGen

Next ==
    \/ \E o \in Colls : Step(InitShared(Dest, o))
    \/ \E c \in Colls, u \in Units : Step(AppendCall(c, u))
    \/ \E c \in Colls, p \in Paths : Step(Save(c, p))
    \/ \E c \in Colls, p \in Paths : Step(Load(c, p))
    \/ \E c \in Colls : Step(Dataframe(c))
    \/ \E c \in Colls, p \in Props : \E v \in ValueSets(p) : Step(Select(c, Dest, p, v))
    \/ \E c \in Colls, p \in Props : \E v \in ValueSets(p) : Step(Exclude(c, Dest, p, v))
    \/ \E c \in Colls, o \in Colls : Step(Add(c, o, Dest))
    \/ \E c \in Colls, o \in Others : Step(AddOther(c, o, Dest))

Spec == Init /\ [][Next]_vars

----------------------------------------------------------------------------
(* grow_random_graphs *)

\* The specification dict that describes QGraph u.
SpecOf(u) == [walkers |-> walkers[u], exploration |-> exploration(u), nodes |-> nodes(u)]
\* A specification dict without the key 'nodes'.
Malformed == [walkers |-> 1, exploration |-> 10]
\* The lists of specifications the caller passes.
Batches ==
    UNION {[1..n -> {SpecOf(u) : u \in Units} \cup {Malformed}] : n \in 0..MaxBatch}

\* QGraph(walkers, exploration) has one node; add_nodes(k) adds k.
AddNodes(n, k) == n + k
\* Whether grow_one_graph(spec) raises KeyError.
GrowFails(spec) == {"walkers", "exploration", "nodes"} \ DOMAIN spec # {}
\* grow_one_graph(spec)
GrowOneGraph(spec) ==
    CHOOSE u \in Units :
        /\ walkers[u] = spec.walkers
        /\ exploration(u) = spec.exploration
        /\ nodes(u) = AddNodes(1, spec.nodes - 1)

Running == gen.pc \in {"next", "append", "clear"}

\* The call: p_imap builds a lazy iterator, the try block is entered.
GrowStart(c, specs) ==
    /\ calls < MaxCalls
    /\ gen.pc \in {"idle", "done"}
    /\ calls' = calls + 1
    /\ gen' = [pc |-> "next", c |-> c, specs |-> specs, finished |-> {}, order |-> <<>>,
               i |-> 0, G |-> 0, before |-> items(c), interrupted |-> FALSE]
    /\ last' = Call("grow", c, "running")
    /\ UNCHANGED <<colls, heap, disk, walkers>>

\* A worker finishes task k (by returning a QGraph or by raising); order lists
\* the tasks in the order they finished.
TaskFinish(k) ==
    /\ Running
    /\ k \in (1..Len(gen.specs)) \ gen.finished
    /\ gen' = [gen EXCEPT !.finished = @ \cup {k}, !.order = Append(@, k)]
    /\ UNCHANGED <<colls, heap, disk, walkers, last, calls>>

\* The call ends: it returns (err "ok") or an exception leaves it.
GrowEnd(err) ==
    /\ gen' = [gen EXCEPT !.pc = "done"]
    /\ last' = Call("grow", gen.c, err)

\* (a variant of the iterator that yields the results as the tasks finish,
\* like p_uimap)
NextTaskUnordered == IF gen.i < Len(gen.order) THEN gen.order[gen.i + 1] ELSE gen.i + 1
\* The task whose result the iterator yields next: p_imap is the ordered
\* iterator, it yields the results in the order of the specifications.
NextTask == gen.i + 1

\* for G in iterator: the next result is awaited; a task's exception is raised
\* where its result is due.
GrowNext ==
    /\ gen.pc = "next"
    /\ IF gen.i = Len(gen.specs)
       THEN GrowEnd("ok")
       ELSE /\ NextTask \in gen.finished
            /\ IF GrowFails(gen.specs[NextTask])
               THEN GrowEnd("KeyError")
               ELSE /\ gen' = [gen EXCEPT !.pc = "append",
                                           !.G = GrowOneGraph(gen.specs[NextTask])]
                    /\ UNCHANGED last
    /\ UNCHANGED <<colls, heap, disk, walkers, calls>>

\* self.append(G), first statement: self.list.append(G)
GrowAppend ==
    /\ gen.pc = "append"
    /\ IF kind(gen.c) # "list"
       THEN GrowEnd("AttributeError") /\ UNCHANGED heap
       ELSE /\ heap' = [heap EXCEPT ![colls[gen.c].list].items = Append(@, gen.G)]
            /\ gen' = [gen EXCEPT !.pc = "clear"]
            /\ UNCHANGED last
    /\ UNCHANGED <<colls, disk, walkers, calls>>

\* self.append(G), second statement: self.dataframe_ = None
GrowClear ==
    /\ gen.pc = "clear"
    /\ colls' = [colls EXCEPT ![gen.c].dataframe_ = NoFrame]
    /\ gen' = [gen EXCEPT !.pc = "next", !.i = @ + 1]
    /\ UNCHANGED <<heap, disk, walkers, last, calls>>

\* (a variant without the except clause: the interrupt leaves the call)
InterruptPropagates == "KeyboardInterrupt"
\* What the call does with a KeyboardInterrupt raised in the try block:
\* the except clause prints a notice and the call returns.
InterruptOutcome == "ok"

\* KeyboardInterrupt arrives in the main thread, anywhere in the try block.
GrowInterrupt ==
    /\ Running
    /\ gen' = [gen EXCEPT !.pc = "done", !.interrupted = TRUE]
    /\ last' = Call("grow", gen.c, InterruptOutcome)
    /\ UNCHANGED <<colls, heap, disk, walkers, calls>>

\* The walker counts of the caller's QGraphs: all keys of self.numbers, or the
\* last one a count that is no key (QGraph accepts any positive count).
WalkerCounts ==
    {[u \in Units |-> u],
     [u \in Units |-> IF u = NUnits THEN Cardinality(DOMAIN numbers) + 1 ELSE u]}

\* The caller of grow_random_graphs: one collection, constructed from a list,
\* that may have been saved, loaded and summarised before.
InitGrow ==
    /\ \E a \in Lists :
          heap = [r \in Refs |-> [kind |-> "list", items |-> IF r = "A" THEN a ELSE <<>>]]
    /\ colls = [c \in Colls |-> NewObject(c)]
    /\ disk = [p \in Paths |-> NoFile]
    /\ walkers \in WalkerCounts
    /\ last = NoCall
    /\ calls = 0
    /\ gen = NoGen

NextGrow ==
    \/ \E p \in Paths : Step(Save("A", p))
    \/ \E p \in Paths : Step(Load("A", p))
    \/ Step(Dataframe("A"))
    \/ \E specs \in Batches : GrowStart("A", specs)
    \/ \E k \in 1..MaxBatch : TaskFinish(k)
    \/ GrowNext
    \/ GrowAppend
    \/ GrowClear
    \/ GrowInterrupt

SpecGrow == InitGrow /\ [][NextGrow]_vars

----------------------------------------------------------------------------
(* Properties of the collection *)

itemsNext(c) == heap'[colls'[c].list].items

\* rows is the summary table of lst: one row per element, in order.
IsTableOf(rows, lst) ==
    /\ Len(rows) = Len(lst)
    /\ \A i \in 1..Len(lst) : walkers[lst[i]] \in DOMAIN numbers /\ rows[i] = Row(lst[i])

\* Collection x, and the list object it holds, are after the step what they were before.
Preserved(x) == colls'[x] = colls[x] /\ heap'[colls[x].list] = heap[colls[x].list]

\* After the step no other collection holds the list object of d.
Unaliased(d) == \A x \in Colls \ {d} : colls'[x].list # colls'[d].list

\* C1: in every reachable state each collection's cached summary table is absent
\* or has exactly one row per element of the collection's current sequence, in
\* sequence order.
C1_CacheCoherent ==
    \A c \in Colls :
        colls[c].dataframe_ = NoFrame \/ IsTableOf(colls[c].dataframe_.rows, items(c))

\* C1, as its second sentence states it: every call on a collection that
\* changes the collection's sequence (append, load) leaves its cached summary
\* table absent, so that the table a collection holds is always the table of
\* its current sequence.
C1_SequenceChangeInvalidates ==
    [][\A c \in Colls :
          (last'.c = c /\ itemsNext(c) # items(c)) =>
              (colls'[c].dataframe_ = NoFrame
               \/ IsTableOf(colls'[c].dataframe_.rows, itemsNext(c)))
      ]_vars

\* C2: select, exclude and + leave their operands (list object, elements, cached
\* table, filename) as they were, the collection they return holds a list object
\* of its own, and an append to the returned collection changes no other
\* collection's list.
C2_DerivePure ==
    [][/\ \A c \in Colls \ {Dest} :
            (last'.op \in {"select", "exclude"} /\ last'.c = c) =>
                Preserved(c) /\ (last'.err = "ok" => Unaliased(Dest))
       /\ \A c \in Colls, o \in Colls :
            (last'.op = "add" /\ last'.c = c /\ Add(c, o, Dest)) =>
                /\ c # Dest => Preserved(c)
                /\ o # Dest => Preserved(o)
                /\ last'.err = "ok" => Unaliased(Dest)
       /\ (/\ last.op \in {"select", "exclude", "add"} /\ last.err = "ok"
           /\ last'.op = "append" /\ last'.c = Dest) =>
                \A x \in Colls \ {Dest} : Preserved(x)
      ]_vars

\* C2 witness: select has returned a proper part of a collection that has a
\* computed table and a bound filename.
C2_Witness ==
    /\ last.op = "select" /\ last.c = "A" /\ last.err = "ok"
    /\ colls["A"].dataframe_ # NoFrame /\ colls["A"].filename # NoName
    /\ items(Dest) # <<>> /\ items(Dest) # items("A")

\* C3: a dataframe read never changes the sequence, and a read that directly
\* follows a read of the same collection returns the same table without
\* computing it again.
C3_SummaryIdempotent ==
    [][\A c \in Colls :
          (last'.op = "dataframe" /\ last'.c = c) =>
              /\ heap' = heap
              /\ colls'[c].list = colls[c].list
              /\ (last.op = "dataframe" /\ last.c = c /\ last.err = "ok") =>
                    (last'.err = "ok" /\ last'.ret = last.ret /\ ~last'.computed)
      ]_vars

\* C3 witness: two reads of A in a row, the second answered from the cache.
C3_Witness ==
    /\ calls = 2 /\ last.op = "dataframe" /\ last.c = "A" /\ last.err = "ok"
    /\ ~last.computed /\ Len(last.ret.rows) = 2 /\ items("A") = <<2, 1>>

\* C4: A + B returns, for A and B in any reachable state, a collection whose
\* sequence is A's elements followed by B's.
C4_MergeConcatenates ==
    [][\A c \in Colls, o \in Colls :
          (last'.op = "add" /\ last'.c = c /\ Add(c, o, Dest)) =>
              (last'.err = "ok" /\ itemsNext(Dest) = items(c) \o items(o))
      ]_vars

\* C5: the collection A + B returns has a table exactly when both A and B had
\* one, its rows are then A's rows followed by B's rows, and it is a table no
\* other collection holds.
C5_MergeFastPath ==
    [][\A c \in Colls, o \in Colls :
          (last'.op = "add" /\ last'.c = c /\ last'.err = "ok" /\ Add(c, o, Dest)) =>
              LET a == colls[c].dataframe_
                  b == colls[o].dataframe_
                  m == colls'[Dest].dataframe_
              IN  /\ (m # NoFrame) <=> (a # NoFrame /\ b # NoFrame)
                  /\ m # NoFrame =>
                        /\ m.rows = a.rows \o b.rows
                        /\ \A x \in Colls \ {Dest} : colls'[x].dataframe_.id # m.id
      ]_vars

\* C5 witness: A + B has been built from two different computed tables.
C5_Witness ==
    /\ last.op = "add" /\ last.c = "A" /\ last.err = "ok"
    /\ colls["A"].dataframe_.rows # <<>> /\ colls["B"].dataframe_.rows # <<>>
    /\ colls["A"].dataframe_.rows # colls["B"].dataframe_.rows
    /\ colls[Dest].dataframe_.rows = colls["A"].dataframe_.rows \o colls["B"].dataframe_.rows

\* The elements of lst at the positions in P, in the order of lst.
RECURSIVE Pick(_, _, _)
Pick(lst, P, i) ==
    IF i > Len(lst) THEN <<>>
    ELSE (IF i \in P THEN <<lst[i]>> ELSE <<>>) \o Pick(lst, P, i + 1)

\* C6: whenever a select or exclude call has returned, for every collection,
\* known property and value set, select and exclude partition the collection:
\* select returns the elements at the positions whose property value is in the
\* set, exclude the elements at the other positions, each in the collection's
\* order, and the two sizes add up to its size.
C6_SelectExcludePartition ==
    (last.op \in {"select", "exclude"} /\ last.err = "ok") =>
    \A c \in Colls, p \in Props \cap Attributes : \A v \in ValueSets(p) :
        LET lst == items(c)
            P == {i \in 1..Len(lst) : GetAttr(lst[i], p) \in v}
            sel == SelectList(lst, p, v)
            exc == ExcludeList(lst, p, v)
        IN  /\ sel = Pick(lst, P, 1)
            /\ exc = Pick(lst, (1..Len(lst)) \ P, 1)
            /\ Len(sel) + Len(exc) = Len(lst)

\* C6 witness: select has split a collection of two different elements.
C6_Witness ==
    /\ last.op = "select" /\ last.c = "A" /\ last.err = "ok"
    /\ items("A") = <<2, 1>> /\ items(Dest) = <<1>>
    /\ ExcludeList(items("A"), "walkers", {1}) = <<2>>

\* C7: a load that directly follows a save to the same path gives the loading
\* collection a sequence of the same length and order as the saved one, element
\* by element equal in hash, exploration, walkers and nodes, whatever the
\* loading collection held before.
C7_RoundTrip ==
    [][\A a \in Colls, b \in Colls :
          (/\ last.op = "save" /\ last.c = a /\ last.err = "ok"
           /\ last'.op = "load" /\ last'.c = b /\ last'.err = "ok"
           /\ colls'[b].filename = colls[a].filename) =>
              /\ Len(itemsNext(b)) = Len(items(a))
              /\ \A i \in 1..Len(items(a)) :
                    LET g == items(a)[i]
                        h == itemsNext(b)[i]
                    IN  /\ Hash(h) = Hash(g)
                        /\ exploration(h) = exploration(g)
                        /\ walkers[h] = walkers[g]
                        /\ nodes(h) = nodes(g)
      ]_vars

\* C7 witness: B, which held something else, has loaded what A saved.
C7_Witness ==
    /\ calls = 2 /\ last.op = "load" /\ last.c = "B" /\ last.err = "ok"
    /\ colls["A"].filename = colls["B"].filename
    /\ items("A") = <<2, 1>> /\ items("B") = <<2, 1>> /\ kind("B") = "ndarray"

\* Whether a path ends with ".npy".
EndsWithNpy(path) ==
    /\ Len(path) >= 4
    /\ path[Len(path) - 3] = "." /\ path[Len(path) - 2] = "n"
    /\ path[Len(path) - 1] = "p" /\ path[Len(path)] = "y"

\* C8: save and load with a path that does not end with ".npy" raise ValueError
\* and leave the files, the sequence, the cached table and the filename as
\* they were.
C8_BadExtensionRejected ==
    [][\A c \in Colls, path \in Paths :
          (/\ last'.op \in {"save", "load"} /\ last'.c = c
           /\ ~EndsWithNpy(path)
           /\ Save(c, path) \/ Load(c, path)) =>
              /\ last'.err = "ValueError"
              /\ UNCHANGED <<colls, heap, disk>>
      ]_vars

\* C8 witness: a load with a wrong extension was refused on a collection that
\* has a bound filename and a computed table.
C8_Witness ==
    /\ last.op = "load" /\ last.c = "A" /\ last.err = "ValueError"
    /\ colls["A"].filename # NoName /\ colls["A"].dataframe_ # NoFrame
    /\ items("A") # <<>>

\* C9: the bound filename is the path of the most recent save or load that
\* succeeded (a call that raises leaves the binding as it was); a dataframe read
\* writes the current sequence to the bound file, and writes nothing when no
\* filename is bound.
C9_FileBinding ==
    [][\A c \in Colls :
          /\ (last'.op \in {"save", "load"} /\ last'.c = c /\ last'.err # "ok") =>
                colls'[c].filename = colls[c].filename
          /\ (last'.op \in {"save", "load"} /\ last'.c = c /\ last'.err = "ok") =>
                \E path \in Paths : (Save(c, path) \/ Load(c, path))
                                      /\ colls'[c].filename = path
          /\ (last'.op = "dataframe" /\ last'.c = c /\ last'.err = "ok") =>
                IF colls[c].filename = NoName
                THEN disk' = disk
                ELSE disk' = [disk EXCEPT ![colls[c].filename] =
                                            NpSave(colls[c].filename, itemsNext(c))]
      ]_vars

----------------------------------------------------------------------------
(* Properties of grow_random_graphs *)

\* The number of units the call has appended so far.
Appended == Len(items(gen.c)) - Len(gen.before)

\* The units of the first n specifications, in their order.
Grown(specs, n) == [k \in 1..n |-> GrowOneGraph(specs[k])]

\* C10 as stated: an interrupted call returns normally, keeps what it had
\* appended, each unit in its place, and has appended between 0 and N-1 units.
C10_InterruptedFewer ==
    (gen.pc = "done" /\ gen.interrupted /\ Len(gen.specs) >= 1) =>
        /\ last.op = "grow" /\ last.err = "ok"
        /\ Appended \in 0..(Len(gen.specs) - 1)
        /\ items(gen.c) = gen.before \o Grown(gen.specs, Appended)

\* C10 amended: an interrupted call returns normally, the collection then holds
\* what it held before followed by the units of the first k specifications in
\* their order, for some k between 0 and N, and nothing is appended after the
\* interrupt.
C10_GracefulCancel ==
    gen.interrupted =>
        /\ gen.pc = "done"
        /\ last.op = "grow" /\ last.err = "ok"
        /\ Appended \in 0..Len(gen.specs)
        /\ items(gen.c) = gen.before \o Grown(gen.specs, Appended)

\* C10 witness: a batch of two was interrupted after its first unit was
\* appended to a collection that was not empty.
C10_Witness ==
    /\ gen.pc = "done" /\ gen.interrupted /\ last.err = "ok"
    /\ Len(gen.specs) = 2 /\ Appended = 1 /\ gen.before # <<>>

\* C11: when an interrupted call has returned, a collection whose cached table
\* was absent or was the table of its sequence when the call started has a
\* cached table that is absent or is the table of its sequence now: every
\* append happened wholly or not at all.
C11_AppendAtomic ==
    LET df == colls[gen.c].dataframe_
    IN  (/\ gen.pc = "done" /\ gen.interrupted
         /\ (df = NoFrame \/ IsTableOf(df.rows, gen.before))) =>
            (df = NoFrame \/ IsTableOf(df.rows, items(gen.c)))

\* Every specification of the batch has the three keys.
WellFormed(specs) == \A k \in 1..Len(specs) : ~GrowFails(specs[k])

\* C12: a call with N well-formed specifications that was not interrupted and
\* has ended has returned normally, and the collection holds what it held
\* before followed by the N units of the specifications, one per specification.
C12_AllAppended ==
    (gen.pc = "done" /\ ~gen.interrupted /\ WellFormed(gen.specs)) =>
        /\ last.op = "grow" /\ last.err = "ok"
        /\ items(gen.c) = gen.before \o Grown(gen.specs, Len(gen.specs))

\* C12 for a collection that holds a Python list (one that load has not
\* touched): the same statement.
C12_AllAppendedToList ==
    (gen.pc = "done" /\ ~gen.interrupted /\ WellFormed(gen.specs) /\ kind(gen.c) = "list") =>
        /\ last.op = "grow" /\ last.err = "ok"
        /\ items(gen.c) = gen.before \o Grown(gen.specs, Len(gen.specs))

\* C13 as stated: the units are appended in the order in which their tasks
\* finished: the j-th appended unit is the unit of the j-th task to finish.
C13_CompletionOrder ==
    (gen.pc # "idle" /\ WellFormed(gen.specs)) =>
        \A j \in 1..Appended :
            items(gen.c)[Len(gen.before) + j] = GrowOneGraph(gen.specs[gen.order[j]])

\* C13 amended: the units are appended in the order of the specifications,
\* whatever the order in which the tasks finish: at every point of a call the
\* collection holds what it held before followed by the units of the first k
\* specifications, in their order.
C13_SubmissionOrder ==
    gen.pc # "idle" =>
        /\ Appended \in 0..Len(gen.specs)
        /\ SubSeq(items(gen.c), 1, Len(gen.before)) = gen.before
        /\ \A j \in 1..Appended :
              /\ ~GrowFails(gen.specs[j])
              /\ items(gen.c)[Len(gen.before) + j] = GrowOneGraph(gen.specs[j])

\* C13 witness: the second task of a batch of two different specifications
\* finished first, and the call has returned with both units appended.
C13_Witness ==
    /\ gen.pc = "done" /\ ~gen.interrupted /\ last.err = "ok"
    /\ gen.order = <<2, 1>> /\ gen.specs[1] # gen.specs[2] /\ Appended = 2

\* C14: when a call on a collection that holds a list has ended without an
\* interrupt, every well-formed specification of the batch has had its unit
\* appended, whatever malformed specifications the batch contains.
C14_MalformedIsolated ==
    (gen.pc = "done" /\ ~gen.interrupted /\ kind(gen.c) = "list") =>
        Appended = Cardinality({k \in 1..Len(gen.specs) : ~GrowFails(gen.specs[k])})

\* C15: a dataframe read does not fail, and the table it builds has one row per
\* unit whose walkers column is the word of self.numbers for a walker count
\* from 1 to 8 and the count itself for any other.
C15_SummaryTotal ==
    last.op = "dataframe" =>
        /\ last.err = "ok"
        /\ last.computed =>
              /\ Len(last.ret.rows) = Len(items(last.c))
              /\ \A i \in 1..Len(last.ret.rows) :
                    LET w == walkers[items(last.c)[i]]
                    IN  last.ret.rows[i].walkers =
                            IF w \in DOMAIN numbers THEN numbers[w] ELSE w

----------------------------------------------------------------------------
(* Properties of the collection, continued *)

\* C16: an append to a collection changes the size and the contents of no
\* other collection, however the two were constructed.
C16_ExclusiveOwnership ==
    [][\A c \in Colls :
          (last'.op = "append" /\ last'.c = c) =>
              \A y \in Colls \ {c} : itemsNext(y) = items(y)
      ]_vars

\* C17: + with an operand that is no QGraphList raises TypeError, returns no
\* collection and leaves every collection, list and file as it was.
C17_TypeMismatch ==
    [][last'.op = "add_other" =>
          (last'.err = "TypeError" /\ UNCHANGED <<colls, heap, disk>>)
      ]_vars

\* C18: append succeeds on a collection in any reachable state: the sequence
\* grows by the unit at its end, the filename is as before, the cached table is
\* absent and no file is written.
C18_AppendEnabled ==
    [][\A c \in Colls :
          (last'.op = "append" /\ last'.c = c) =>
              /\ last'.err = "ok"
              /\ \E u \in Units : itemsNext(c) = Append(items(c), u)
              /\ colls'[c].filename = colls[c].filename
              /\ colls'[c].dataframe_ = NoFrame
              /\ disk' = disk
      ]_vars

\* The calls that return a new collection.
Deriving == {"select", "exclude", "add", "add_other"}

\* C19: the collection select, exclude and + return has no filename bound; it
\* stays unbound until it is itself saved or loaded; a dataframe read on it
\* right after it was returned leaves every file as it was.
C19_DerivedUnbound ==
    [][/\ (last'.op \in Deriving /\ last'.err = "ok") => colls'[Dest].filename = NoName
       /\ (/\ colls[Dest].filename = NoName
           /\ ~(last'.op \in {"save", "load"} /\ last'.c = Dest)) =>
                colls'[Dest].filename = NoName
       /\ (/\ last.op \in Deriving /\ last.err = "ok"
           /\ last'.op = "dataframe" /\ last'.c = Dest) =>
                disk' = disk
      ]_vars

\* C19 witness: A was saved, a collection with a list of its own was derived,
\* and its table has been read: A's file still holds what A saved.
C19_Witness ==
    /\ calls = 3 /\ last.op = "dataframe" /\ last.c = Dest /\ last.err = "ok"
    /\ colls[Dest].filename = NoName /\ items(Dest) # <<>>
    /\ \A x \in Colls \ {Dest} : colls[x].list # colls[Dest].list
    /\ colls["A"].filename # NoName
    /\ disk[colls["A"].filename] = NpSave(colls["A"].filename, items("A"))
    /\ items("A") # items(Dest)

\* C20: in every reachable state the filename of every collection is unbound
\* or ends with ".npy", and no dataframe read has failed with the ValueError of
\* the extension check.
C20_FilenameInvariant ==
    /\ \A c \in Colls : colls[c].filename = NoName \/ EndsWithNpy(colls[c].filename)
    /\ last.op = "dataframe" => last.err # "ValueError"

\* C20 witness: a dataframe read has built the table of a saved collection and
\* written the collection to its file again.
C20_Witness ==
    /\ calls = 2 /\ last.op = "dataframe" /\ last.c = "A" /\ last.err = "ok" /\ last.computed
    /\ items("A") # <<>> /\ EndsWithNpy(colls["A"].filename)
    /\ disk[colls["A"].filename] = NpSave(colls["A"].filename, items("A"))

====
